---- MODULE Spec2Model ----
(***************************************************************************)
(* base64-encoder.py: text -> floats -> packed IEEE-754 bytes -> data URI.  *)
(*                                                                         *)
(* Text is a sequence of one-character strings, a Python float is its      *)
(* IEEE-754 binary64 bit pattern (64 bits, most significant first), bytes  *)
(* are sequences of numbers in 0..255.                                     *)
(***************************************************************************)
EXTENDS Integers, Sequences, FiniteSets, TLC

\* ------------------------------------------------------------------ bounds
\* Longest text read from standard input or handed to extract_floats.
MaxLen == 4
\* Most positional arguments on the command line.
MaxArgs == 2

\* --------------------------------------------------------------- alphabets
Digits == {"0", "1", "2", "3", "4", "5", "6", "7", "8", "9"}
Signs == {"+", "-"}
ExpMarks == {"e", "E"}
Alphabet == {"9", ".", "e", "E", "+", "-", " "}

\* All texts over a set of characters with at most n characters.
TextsUpTo(chars, n) == UNION {[1..k -> chars] : k \in 0..n}

Texts == TextsUpTo(Alphabet, MaxLen)

\* ------------------------------------------------------- sequence helpers
Zeros(n) == [i \in 1..n |-> 0]

Take(s, n) == [i \in 1..n |-> IF i <= Len(s) THEN s[i] ELSE 0]

Drop(s, n) == IF n >= Len(s) THEN <<>> ELSE SubSeq(s, n + 1, Len(s))

Reverse(s) == [i \in 1..Len(s) |-> s[Len(s) + 1 - i]]

RECURSIVE Flatten(_)
Flatten(ss) == IF ss = <<>> THEN <<>> ELSE Head(ss) \o Flatten(Tail(ss))

Min(a, b) == IF a <= b THEN a ELSE b

\* F(v) with v computed first: a value bound by "x \in {v}" is computed before
\* it is used, and the CHOOSE picks the one element of the set.  It keeps the
\* evaluation of a long chain of steps from nesting one level per step.
Eval(v, F(_)) == CHOOSE r \in {F(x) : x \in {v}} : TRUE

\* ------------------------------------------------ FLOAT_PATTERN (regex)
\* \d+ or \d* from position p (1-based): the position after the digit run.
RECURSIVE DigitRunEnd(_, _)
DigitRunEnd(text, p) ==
    IF p <= Len(text) /\ text[p] \in Digits THEN DigitRunEnd(text, p + 1) ELSE p

IsChar(text, p, chars) == p <= Len(text) /\ text[p] \in chars

\* [+-]? : greedy, position after the optional sign.
SignEnd(text, p) == IF IsChar(text, p, Signs) THEN p + 1 ELSE p

\* Faulty variant: the decimal point is required, (?:\d+\.\d*|\.\d+).
MantissaEndNeedsPoint(text, p) ==
    Eval(DigitRunEnd(text, p), LAMBDA d :
         IF d > p /\ IsChar(text, d, {"."}) THEN DigitRunEnd(text, d + 1)
         ELSE IF IsChar(text, p, {"."}) /\ DigitRunEnd(text, p + 1) > p + 1
              THEN DigitRunEnd(text, p + 1)
         ELSE 0)

\* (?:\d+\.\d*|\.\d+|\d+) tried in this order from p; 0 when none matches.
MantissaEnd(text, p) ==
    Eval(DigitRunEnd(text, p), LAMBDA d :
         IF d > p /\ IsChar(text, d, {"."}) THEN DigitRunEnd(text, d + 1)
         ELSE IF IsChar(text, p, {"."}) /\ DigitRunEnd(text, p + 1) > p + 1
              THEN DigitRunEnd(text, p + 1)
         ELSE IF d > p THEN d
         ELSE 0)

\* Faulty variant: the exponent's digits are optional, (?:[eE][+-]?\d*)?.
ExponentEndNoDigits(text, p) ==
    IF IsChar(text, p, ExpMarks)
    THEN DigitRunEnd(text, SignEnd(text, p + 1))
    ELSE p

\* (?:[eE][+-]?\d+)? from p: the position after the exponent, p when the
\* group matches empty.
ExponentEnd(text, p) ==
    IF IsChar(text, p, ExpMarks)
    THEN Eval(SignEnd(text, p + 1), LAMBDA s :
         Eval(DigitRunEnd(text, s), LAMBDA d : IF d > s THEN d ELSE p))
    ELSE p

\* FLOAT_PATTERN.match(text, p): position after the match, 0 when no match.
\* The sign is optional: when the rest fails after a sign the regex retries
\* without it, and then fails on the sign character itself.
MatchEnd(text, p) ==
    Eval(MantissaEnd(text, SignEnd(text, p)), LAMBDA m :
         IF m = 0 THEN 0 ELSE ExponentEnd(text, m))

\* FLOAT_PATTERN.finditer(text): the matches, left to right, as spans
\* [from, to] (1-based, inclusive); scanning resumes after each match.
RECURSIVE FindIterFrom(_, _)
FindIterFrom(text, p) ==
    IF p > Len(text) THEN <<>>
    ELSE Eval(MatchEnd(text, p), LAMBDA e :
              IF e = 0 THEN FindIterFrom(text, p + 1)
              ELSE <<[from |-> p, to |-> e - 1]>> \o FindIterFrom(text, e))

FindIter(text) == FindIterFrom(text, 1)

\* m.group("num")
Group(text, m) == SubSeq(text, m.from, m.to)

\* ------------------------------------------------------ bits and bignums
NatToBits(n, w) == [i \in 1..w |-> (n \div 2^(w - i)) % 2]

RECURSIVE BitsToNat(_)
BitsToNat(bits) ==
    IF bits = <<>> THEN 0
    ELSE 2 * BitsToNat(SubSeq(bits, 1, Len(bits) - 1)) + bits[Len(bits)]

AllZero(bits) == \A i \in 1..Len(bits) : bits[i] = 0

\* bits + 1, for a bit string that is not all ones.
IncBits(bits) ==
    LET n == Len(bits)
        j == CHOOSE j \in 1..n : bits[j] = 0 /\ \A k \in (j + 1)..n : bits[k] = 1
    IN  [i \in 1..n |-> IF i < j THEN bits[i] ELSE IF i = j THEN 1 ELSE 0]

StripLeadingZeros(bits) ==
    IF AllZero(bits) THEN <<>>
    ELSE LET first == CHOOSE i \in 1..Len(bits) :
                          bits[i] = 1 /\ \A j \in 1..(i - 1) : bits[j] = 0
         IN  SubSeq(bits, first, Len(bits))

\* Arbitrary-precision naturals: limbs in base 2^24, least significant first.
LimbBits == 24
LimbBase == 2^LimbBits

\* limbs[lo..hi] * f + carry, by halves (the evaluation nests log n deep):
\* the product's limbs for lo..hi and the carry out of them.
RECURSIVE MulSmallRange(_, _, _, _, _)
MulSmallRange(limbs, f, lo, hi, carry) ==
    IF lo > hi THEN [p |-> <<>>, c |-> carry]
    ELSE IF lo = hi
    THEN LET t == limbs[lo] * f + carry
         IN  [p |-> <<t % LimbBase>>, c |-> t \div LimbBase]
    ELSE LET mid == (lo + hi) \div 2
         IN  Eval(MulSmallRange(limbs, f, lo, mid, carry), LAMBDA low :
             Eval(MulSmallRange(limbs, f, mid + 1, hi, low.c), LAMBDA high :
                  [p |-> low.p \o high.p, c |-> high.c]))

\* limbs * f + carry, for small f and carry.
MulSmallAdd(limbs, f, carry) ==
    Eval(MulSmallRange(limbs, f, 1, Len(limbs), carry), LAMBDA m :
         IF m.c = 0 THEN m.p ELSE Append(m.p, m.c))

MulSmall(limbs, f) == MulSmallAdd(limbs, f, 0)

\* Division of limbs[lo..hi], with the remainder rem coming in from the limbs
\* above, by a small number: quotient limbs and the remainder.
RECURSIVE DivSmallRange(_, _, _, _, _)
DivSmallRange(limbs, f, lo, hi, rem) ==
    IF lo > hi THEN [q |-> <<>>, r |-> rem]
    ELSE IF lo = hi
    THEN LET t == rem * LimbBase + limbs[lo]
         IN  [q |-> <<t \div f>>, r |-> t % f]
    ELSE LET mid == (lo + hi) \div 2
         IN  Eval(DivSmallRange(limbs, f, mid + 1, hi, rem), LAMBDA high :
             Eval(DivSmallRange(limbs, f, lo, mid, high.r), LAMBDA low :
                  [q |-> low.q \o high.q, r |-> low.r]))

DivSmall(limbs, f) == DivSmallRange(limbs, f, 1, Len(limbs), 0)

\* limbs * 10^n, by halving n.
RECURSIVE MulPow10(_, _)
MulPow10(limbs, n) ==
    IF n = 0 THEN limbs
    ELSE IF n = 1 THEN MulSmall(limbs, 10)
    ELSE Eval(MulPow10(limbs, n \div 2), LAMBDA h : MulPow10(h, n - (n \div 2)))

\* floor(limbs / 10^n), and whether anything was cut off.
RECURSIVE DivPow10(_, _, _)
DivPow10(limbs, n, inexact) ==
    IF n = 0 THEN [q |-> limbs, inexact |-> inexact]
    ELSE IF n = 1
    THEN Eval(DivSmall(limbs, 10), LAMBDA d :
              [q |-> d.q, inexact |-> inexact \/ d.r # 0])
    ELSE Eval(DivPow10(limbs, n \div 2, inexact), LAMBDA h :
              DivPow10(h.q, n - (n \div 2), h.inexact))

\* The binary digits, most significant first, without leading zeros.
LimbsToBits(limbs) ==
    LET n == Len(limbs)
    IN  StripLeadingZeros(
            [i \in 1..(n * LimbBits) |->
                (limbs[n - ((i - 1) \div LimbBits)]
                    \div 2^(LimbBits - 1 - ((i - 1) % LimbBits))) % 2])

\* ------------------------------------------------------------- IEEE-754
\* The encoding, sign bit first, of (-1)^sign * 1.b2b3... * 2^e2, where bits
\* = <<1, b2, b3, ...>> and sticky says that a nonzero tail was cut off
\* bits; ebits exponent bits, prec significand bits (hidden bit included),
\* rounded to nearest, ties to even.  Overflow gives infinity.
InfBits(sign, ebits, prec) ==
    <<sign>> \o [i \in 1..ebits |-> 1] \o Zeros(prec - 1)

EncodeIEEE(sign, bits, e2, sticky, ebits, prec) ==
    LET bias == 2^(ebits - 1) - 1
        eMin == 1 - bias
        normal == e2 >= eMin
        expField == IF normal THEN e2 + bias ELSE 0
    IN  IF e2 > bias THEN InfBits(sign, ebits, prec)
        ELSE
        Eval(IF normal THEN Tail(bits)
             ELSE Zeros(Min(eMin - e2 - 1, prec + 1)) \o bits, LAMBDA ext :
        Eval(NatToBits(expField, ebits) \o Take(ext, prec - 1), LAMBDA composite :
             LET rnd == IF Len(ext) >= prec THEN ext[prec] ELSE 0
                 st == sticky \/ \E i \in (prec + 1)..Len(ext) : ext[i] = 1
                 up == rnd = 1 /\ (st \/ composite[Len(composite)] = 1)
             IN  <<sign>> \o (IF up THEN IncBits(composite) ELSE composite)))

DoubleExpBits == 11
DoublePrec == 53
FloatExpBits == 8
FloatPrec == 24

IsInfBits(x, ebits) ==
    /\ \A i \in 2..(ebits + 1) : x[i] = 1
    /\ \A i \in (ebits + 2)..Len(x) : x[i] = 0

RECURSIVE StripLeadingChars(_, _)
StripLeadingChars(s, chars) ==
    IF s # <<>> /\ s[1] \in chars THEN StripLeadingChars(Tail(s), chars) ELSE s

DigitValue(c) ==
    CASE c = "0" -> 0 [] c = "1" -> 1 [] c = "2" -> 2 [] c = "3" -> 3
      [] c = "4" -> 4 [] c = "5" -> 5 [] c = "6" -> 6 [] c = "7" -> 7
      [] c = "8" -> 8 [] c = "9" -> 9

\* A decimal exponent as a number; beyond eight digits it is so large that
\* 10^8 gives the same float.
RECURSIVE DigitsToNat(_)
DigitsToNat(ds) ==
    IF ds = <<>> THEN 0
    ELSE IF Len(StripLeadingChars(ds, {"0"})) > 8 THEN 10^8
    ELSE 10 * DigitsToNat(SubSeq(ds, 1, Len(ds) - 1)) + DigitValue(ds[Len(ds)])

\* The decimal digit string ds as a bignum.
RECURSIVE DigitsToLimbs(_)
DigitsToLimbs(ds) ==
    IF ds = <<>> THEN <<>>
    ELSE Eval(DigitsToLimbs(SubSeq(ds, 1, Len(ds) - 1)), LAMBDA high :
              MulSmallAdd(high, 10, DigitValue(ds[Len(ds)])))

\* The binary64 nearest to (-1)^sign * (limbs + a fraction) * 2^(-scale), where
\* the fraction is nonzero just when inexact; limbs is not zero.
RoundToDouble(sign, limbs, scale, inexact) ==
    Eval(LimbsToBits(limbs), LAMBDA bits :
         EncodeIEEE(sign, bits, Len(bits) - 1 - scale, inexact,
                    DoubleExpBits, DoublePrec))

\* The binary64 nearest to (-1)^sign * ds * 10^e (ds a string of decimal
\* digits): correctly rounded, as float() does.  A value of 1e309 or more is
\* above the largest binary64 and gives infinity; one below 1e-324 is below
\* half the smallest subnormal and gives zero.
DecimalToDouble(sign, ds, e) ==
    LET sig == StripLeadingChars(ds, {"0"})
    IN  IF sig = <<>> THEN <<sign>> \o Zeros(63)
        ELSE IF e + Len(sig) - 1 >= 309 THEN InfBits(sign, DoubleExpBits, DoublePrec)
        ELSE IF e + Len(sig) <= -324 THEN <<sign>> \o Zeros(63)
        ELSE IF e >= 0
        THEN Eval(MulPow10(DigitsToLimbs(sig), e), LAMBDA n :
                  RoundToDouble(sign, n, 0, FALSE))
        ELSE LET zl == 4 + ((-e) \div 6)
             IN  Eval(DivPow10(Zeros(zl) \o DigitsToLimbs(sig), -e, FALSE), LAMBDA d :
                      RoundToDouble(sign, d.q, zl * LimbBits, d.inexact))

\* (float)x in C: binary64 to binary32, round to nearest even.
DoubleToFloat(x) ==
    Eval(BitsToNat(SubSeq(x, 2, 12)), LAMBDA ef :
    Eval(SubSeq(x, 13, 64), LAMBDA frac :
         IF ef = 2^DoubleExpBits - 1
         THEN IF AllZero(frac) THEN InfBits(x[1], FloatExpBits, FloatPrec)
              ELSE <<x[1]>> \o [i \in 1..(FloatExpBits + 1) |-> 1]
                            \o Zeros(FloatPrec - 2)
         ELSE IF ef = 0 THEN <<x[1]>> \o Zeros(31)
         ELSE Eval(<<1>> \o frac, LAMBDA bits :
                   EncodeIEEE(x[1], bits, ef - (2^(DoubleExpBits - 1) - 1), FALSE,
                              FloatExpBits, FloatPrec))))

\* ---------------------------------------------------------------- float()
Whitespace == {" "}

RECURSIVE Strip(_)
Strip(s) ==
    IF s # <<>> /\ s[1] \in Whitespace THEN Strip(Tail(s))
    ELSE IF s # <<>> /\ s[Len(s)] \in Whitespace THEN Strip(SubSeq(s, 1, Len(s) - 1))
    ELSE s

\* float(s) for a decimal literal: [ok |-> FALSE] is ValueError.  Surrounding
\* whitespace is stripped; then [sign] digits [. [digits]] | [sign] . digits,
\* then an optional exponent, which needs digits, up to the end of the string.
PyFloat(str) ==
    Eval(Strip(str), LAMBDA s :
    LET p0 == SignEnd(s, 1)
        neg == IF IsChar(s, 1, {"-"}) THEN 1 ELSE 0
        p1 == DigitRunEnd(s, p0)
        dot == IsChar(s, p1, {"."})
        p2 == IF dot THEN DigitRunEnd(s, p1 + 1) ELSE p1
        intDigits == SubSeq(s, p0, p1 - 1)
        fracDigits == IF dot THEN SubSeq(s, p1 + 1, p2 - 1) ELSE <<>>
        hasExp == IsChar(s, p2, ExpMarks)
        p3 == IF hasExp THEN SignEnd(s, p2 + 1) ELSE p2
        expNeg == hasExp /\ IsChar(s, p2 + 1, {"-"})
        p4 == IF hasExp THEN DigitRunEnd(s, p3) ELSE p2
        expDigits == SubSeq(s, p3, p4 - 1)
        ok == /\ Len(intDigits) + Len(fracDigits) > 0
              /\ hasExp => p4 > p3
              /\ p4 = Len(s) + 1
        ex == IF expNeg THEN -DigitsToNat(expDigits) ELSE DigitsToNat(expDigits)
    IN  IF ~ok THEN [ok |-> FALSE]
        ELSE [ok |-> TRUE,
              val |-> DecimalToDouble(neg, intDigits \o fracDigits,
                                      ex - Len(fracDigits))])

\* extract_floats(text): [exc |-> "none", value |-> the floats] or the
\* exception float() raised.
RECURSIVE FloatAll(_, _)
FloatAll(text, ms) ==
    IF ms = <<>> THEN [exc |-> "none", value |-> <<>>]
    ELSE Eval(PyFloat(Group(text, Head(ms))), LAMBDA f :
              IF ~f.ok THEN [exc |-> "ValueError", value |-> <<>>]
              ELSE Eval(FloatAll(text, Tail(ms)), LAMBDA rest :
                        IF rest.exc # "none" THEN rest
                        ELSE [exc |-> "none", value |-> <<f.val>> \o rest.value]))

ExtractFloats(text) == Eval(FindIter(text), LAMBDA ms : FloatAll(text, ms))

\* ------------------------------------------------------------ struct.pack
BitsToBytes(bits) ==
    [i \in 1..(Len(bits) \div 8) |-> BitsToNat(SubSeq(bits, 8 * i - 7, 8 * i))]

\* One value under format character ch ("f" or "d"), most significant byte
\* first: "d" copies the binary64; "f" converts to binary32 and fails with
\* OverflowError when a finite value becomes infinite.
PackOneBE(x, ch) ==
    IF ch = "d" THEN [exc |-> "none", value |-> BitsToBytes(x)]
    ELSE Eval(DoubleToFloat(x), LAMBDA y :
              IF IsInfBits(y, FloatExpBits) /\ ~IsInfBits(x, DoubleExpBits)
              THEN [exc |-> "OverflowError", value |-> <<>>]
              ELSE [exc |-> "none", value |-> BitsToBytes(y)])

PackOne(x, ch, prefix) ==
    Eval(PackOneBE(x, ch), LAMBDA r :
         IF r.exc = "none" /\ prefix = "<"
         THEN [exc |-> "none", value |-> Reverse(r.value)]
         ELSE r)

\* struct.pack(fmt, *values) for fmt = prefix, count, ch with count =
\* Len(values): the values one after the other, in standard size, without
\* alignment; no bytes at all when a value fails.  packed counts the values
\* serialized before it ended.
RECURSIVE StructPackFrom(_, _, _, _)
StructPackFrom(fmt, values, i, acc) ==
    IF i > Len(values) THEN [exc |-> "none", value |-> acc, packed |-> i - 1]
    ELSE Eval(PackOne(values[i], fmt.ch, fmt.prefix), LAMBDA r :
              IF r.exc # "none" THEN [exc |-> r.exc, value |-> <<>>, packed |-> i - 1]
              ELSE StructPackFrom(fmt, values, i + 1, acc \o r.value))

\* Faulty variant: big-endian output made by reversing the whole little-endian buffer.
StructPackReversed(fmt, values) ==
    IF fmt.prefix = "<" THEN StructPackFrom(fmt, values, 1, <<>>)
    ELSE Eval(StructPackFrom([fmt EXCEPT !.prefix = "<"], values, 1, <<>>), LAMBDA r :
              [r EXCEPT !.value = Reverse(r.value)])

StructPack(fmt, values) == StructPackFrom(fmt, values, 1, <<>>)

\* --------------------------------------------------------- floats_to_bytes
DTypes == {"f32", "f64"}
Endians == {"little", "big"}

\* Faulty variant: the two format characters swapped.
FmtCharSwapped(dtype) == IF dtype = "f32" THEN "d" ELSE "f"

FmtChar(dtype) == IF dtype = "f32" THEN "f" ELSE "d"

FmtPrefix(endian) == IF endian = "little" THEN "<" ELSE ">"

\* Faulty variant: the configuration is checked after packing.
FloatsToBytesLateCheck(values, dtype, endian) ==
    Eval(StructPack([prefix |-> FmtPrefix(endian), count |-> Len(values),
                     ch |-> FmtChar(dtype)], values), LAMBDA r :
         IF r.exc # "none" THEN r
         ELSE IF dtype \notin DTypes \/ endian \notin Endians
         THEN [exc |-> "ValueError", value |-> <<>>, packed |-> r.packed]
         ELSE r)

FloatsToBytes(values, dtype, endian) ==
    IF dtype \notin DTypes THEN [exc |-> "ValueError", value |-> <<>>, packed |-> 0]
    ELSE IF endian \notin Endians THEN [exc |-> "ValueError", value |-> <<>>, packed |-> 0]
    ELSE StructPack([prefix |-> FmtPrefix(endian), count |-> Len(values),
                     ch |-> FmtChar(dtype)], values)

\* ------------------------------------------------------- base64.b64encode
B64Chars ==
    <<"A", "B", "C", "D", "E", "F", "G", "H", "I", "J", "K", "L", "M", "N", "O", "P",
      "Q", "R", "S", "T", "U", "V", "W", "X", "Y", "Z", "a", "b", "c", "d", "e", "f",
      "g", "h", "i", "j", "k", "l", "m", "n", "o", "p", "q", "r", "s", "t", "u", "v",
      "w", "x", "y", "z", "0", "1", "2", "3", "4", "5", "6", "7", "8", "9", "+", "/">>

\* Faulty variant: no "=" padding.
B64EncodeUnpadded(bytes) ==
    LET n == Len(bytes)
        byte(j) == IF j <= n THEN bytes[j] ELSE 0
    IN  [i \in 1..((4 * n + 2) \div 3) |->
            LET g == (i - 1) \div 4
                k == (i - 1) % 4
                v == byte(3 * g + 1) * 65536 + byte(3 * g + 2) * 256 + byte(3 * g + 3)
            IN  B64Chars[((v \div 64^(3 - k)) % 64) + 1]]

\* Character i of the encoding: bytes are taken three at a time as a 24-bit
\* number and written as four 6-bit characters; a last group of one or two
\* bytes is filled with zero bits and its unused characters are "=".
B64Encode(bytes) ==
    LET n == Len(bytes)
        byte(j) == IF j <= n THEN bytes[j] ELSE 0
    IN  [i \in 1..(4 * ((n + 2) \div 3)) |->
            LET g == (i - 1) \div 4
                k == (i - 1) % 4
                v == byte(3 * g + 1) * 65536 + byte(3 * g + 2) * 256 + byte(3 * g + 3)
                have == Min(3, n - 3 * g)
            IN  IF k > have THEN "="
                ELSE B64Chars[((v \div 64^(3 - k)) % 64) + 1]]

\* ------------------------------------------------------ floats_to_data_uri
UriPrefix ==
    <<"d", "a", "t", "a", ":", "a", "p", "p", "l", "i", "c", "a", "t", "i", "o", "n",
      "/", "o", "c", "t", "e", "t", "-", "s", "t", "r", "e", "a", "m", ";", "b", "a",
      "s", "e", "6", "4", ",">>

\* raw is the byte buffer (local to the function), kept for the properties.
FloatsToDataUri(values, dtype, endian) ==
    Eval(FloatsToBytes(values, dtype, endian), LAMBDA raw :
         IF raw.exc # "none"
         THEN [exc |-> raw.exc, value |-> <<>>, raw |-> <<>>, packed |-> raw.packed]
         ELSE [exc |-> "none", value |-> UriPrefix \o B64Encode(raw.value),
               raw |-> raw.value, packed |-> raw.packed])

\* ------------------------------------------------------------------ main()
\* Positional arguments tried on the command line.
ArgTokens ==
    {<<"-">>, <<".">>, <<"e">>, <<"9">>, <<"-", "9">>, <<".", "9">>,
     <<"9", "e", "9", "9">>}

ArgLists == UNION {[1..k -> ArgTokens] : k \in 0..MaxArgs}

\* Texts tried on standard input.
StdinAlphabet == {"9", ".", "e", "-", " "}
StdinTexts == TextsUpTo(StdinAlphabet, MaxLen)

NoNumbersMessage == "No numbers found. Provide floats as args or via stdin."

\* What the interpreter writes to standard error for an uncaught exception
\* (the stack frames between the two lines are left out).
Traceback(e) == <<"Traceback (most recent call last):", e>>

VARIABLES
    numbers,    \* args.numbers
    dtype,      \* args.dtype
    endian,     \* args.endian
    pc,         \* the statement to run next, "exit" once the process has ended
    stdin,      \* what standard input held, once it was read
    stdinRead,  \* whether sys.stdin.read() was called
    text,       \* main's text
    values,     \* main's values
    raw,        \* floats_to_data_uri's raw
    uri,        \* main's uri
    exc,        \* the exception raised, "none" when none
    packed,     \* how many values struct.pack serialized
    calls,      \* the functions of the module called so far
    stdout,     \* lines written to standard output
    stderr,     \* lines written to standard error
    exitCode    \* the exit status, -1 while the process runs

vars == <<numbers, dtype, endian, pc, stdin, stdinRead, text, values, raw, uri,
          exc, packed, calls, stdout, stderr, exitCode>>

\* " ".join(args.numbers)
RECURSIVE Join(_)
Join(ns) ==
    IF ns = <<>> THEN <<>>
    ELSE IF Len(ns) = 1 THEN ns[1]
    ELSE ns[1] \o <<" ">> \o Join(Tail(ns))

\* Faulty variant: "-" anywhere among the arguments selects standard input.
ReadsStdinAnyDash(ns) == ns = <<>> \/ \E i \in 1..Len(ns) : ns[i] = <<"-">>

\* not args.numbers or (len(args.numbers) == 1 and args.numbers[0] == "-")
ReadsStdin(ns) == ns = <<>> \/ (Len(ns) = 1 /\ ns[1] = <<"-">>)

\* The state after parse_args(): argparse admits only the listed choices
\* of --dtype and --endian.
Init ==
    /\ numbers \in ArgLists
    /\ dtype \in DTypes
    /\ endian \in Endians
    /\ pc = "gather"
    /\ stdin = <<>>
    /\ stdinRead = FALSE
    /\ text = <<>>
    /\ values = <<>>
    /\ raw = <<>>
    /\ uri = <<>>
    /\ exc = "none"
    /\ packed = 0
    /\ calls = {}
    /\ stdout = <<>>
    /\ stderr = <<>>
    /\ exitCode = -1

\* An exception nobody catches: traceback on standard error, exit status 1.
Uncaught(e) ==
    /\ exc' = e
    /\ stderr' = stderr \o Traceback(e)
    /\ exitCode' = 1
    /\ pc' = "exit"

GatherText ==
    /\ pc = "gather"
    /\ IF ReadsStdin(numbers)
       THEN \E s \in StdinTexts : stdin' = s /\ stdinRead' = TRUE /\ text' = s
       ELSE text' = Join(numbers) /\ UNCHANGED <<stdin, stdinRead>>
    /\ pc' = "extract"
    /\ UNCHANGED <<numbers, dtype, endian, values, raw, uri, exc, packed, calls,
                   stdout, stderr, exitCode>>

Extract ==
    /\ pc = "extract"
    /\ calls' = calls \cup {"extract_floats"}
    /\ \E r \in {ExtractFloats(text)} :
           IF r.exc = "none"
           THEN /\ values' = r.value
                /\ pc' = "check"
                /\ UNCHANGED <<exc, stderr, exitCode>>
           ELSE Uncaught(r.exc) /\ UNCHANGED values
    /\ UNCHANGED <<numbers, dtype, endian, stdin, stdinRead, text, raw, uri, packed,
                   stdout>>

\* Faulty variant: the diagnostic is printed to standard output.
NoNumbersPrints ==
    /\ pc = "check"
    /\ values = <<>>
    /\ stdout' = Append(stdout, NoNumbersMessage)
    /\ exitCode' = 1
    /\ pc' = "exit"
    /\ UNCHANGED <<numbers, dtype, endian, stdin, stdinRead, text, values, raw, uri,
                   exc, packed, calls, stderr>>

NoNumbers ==
    /\ pc = "check"
    /\ values = <<>>
    /\ stderr' = Append(stderr, NoNumbersMessage)
    /\ exitCode' = 1
    /\ pc' = "exit"
    /\ UNCHANGED <<numbers, dtype, endian, stdin, stdinRead, text, values, raw, uri,
                   exc, packed, calls, stdout>>

DataUriReturns ==
    /\ pc = "check"
    /\ values # <<>>
    /\ \E r \in {FloatsToDataUri(values, dtype, endian)} :
           /\ r.exc = "none"
           /\ raw' = r.raw
           /\ uri' = r.value
           /\ packed' = r.packed
    /\ calls' = calls \cup {"floats_to_data_uri", "floats_to_bytes"}
    /\ pc' = "print"
    /\ UNCHANGED <<numbers, dtype, endian, stdin, stdinRead, text, values, exc,
                   stdout, stderr, exitCode>>

DataUriRaises ==
    /\ pc = "check"
    /\ values # <<>>
    /\ \E r \in {FloatsToDataUri(values, dtype, endian)} :
           /\ r.exc # "none"
           /\ packed' = r.packed
           /\ Uncaught(r.exc)
    /\ calls' = calls \cup {"floats_to_data_uri", "floats_to_bytes"}
    /\ UNCHANGED <<numbers, dtype, endian, stdin, stdinRead, text, values, raw, uri,
                   stdout>>

\* print(uri), and main returns.
PrintUri ==
    /\ pc = "print"
    /\ stdout' = Append(stdout, uri)
    /\ exitCode' = 0
    /\ pc' = "exit"
    /\ UNCHANGED <<numbers, dtype, endian, stdin, stdinRead, text, values, raw, uri,
                   exc, packed, calls, stderr>>

Next ==
    \/ GatherText
    \/ Extract
    \/ NoNumbers
    \/ DataUriReturns
    \/ DataUriRaises
    \/ PrintUri

Spec == Init /\ [][Next]_vars

\* ------------------------------------- the functions called on their own
\* dtype and endian a caller may pass, valid or not.
AnyDTypes == DTypes \cup {"f16", "F32"}
AnyEndians == Endians \cup {"native"}

\* Value sequences a caller passes: what extract_floats gives on these texts.
CallTexts == TextsUpTo({"9", "e", "-", " "}, MaxLen)
CallValues == {ExtractFloats(t).value : t \in CallTexts}

InitCall ==
    /\ numbers = <<>>
    /\ dtype = "f32"
    /\ endian = "little"
    /\ pc = "call"
    /\ stdin = <<>>
    /\ stdinRead = FALSE
    /\ text = <<>>
    /\ values = <<>>
    /\ raw = <<>>
    /\ uri = <<>>
    /\ exc = "none"
    /\ packed = 0
    /\ calls = {}
    /\ stdout = <<>>
    /\ stderr = <<>>
    /\ exitCode = -1

CallExtractFloats ==
    /\ pc = "call"
    /\ \E t \in Texts :
        \E r \in {ExtractFloats(t)} :
            /\ text' = t
            /\ values' = r.value
            /\ exc' = r.exc
    /\ calls' = {"extract_floats"}
    /\ pc' = "returned"
    /\ UNCHANGED <<numbers, dtype, endian, stdin, stdinRead, raw, uri, packed,
                   stdout, stderr, exitCode>>

CallFloatsToBytes ==
    /\ pc = "call"
    /\ \E v \in CallValues, d \in AnyDTypes, e \in AnyEndians :
        \E r \in {FloatsToBytes(v, d, e)} :
            /\ values' = v
            /\ dtype' = d
            /\ endian' = e
            /\ raw' = r.value
            /\ exc' = r.exc
            /\ packed' = r.packed
    /\ calls' = {"floats_to_bytes"}
    /\ pc' = "returned"
    /\ UNCHANGED <<numbers, stdin, stdinRead, text, uri, stdout, stderr, exitCode>>

CallFloatsToDataUri ==
    /\ pc = "call"
    /\ \E v \in CallValues, d \in AnyDTypes, e \in AnyEndians :
        \E r \in {FloatsToDataUri(v, d, e)} :
            /\ values' = v
            /\ dtype' = d
            /\ endian' = e
            /\ raw' = r.raw
            /\ uri' = r.value
            /\ exc' = r.exc
            /\ packed' = r.packed
    /\ calls' = {"floats_to_data_uri", "floats_to_bytes"}
    /\ pc' = "returned"
    /\ UNCHANGED <<numbers, stdin, stdinRead, text, stdout, stderr, exitCode>>

NextCall ==
    \/ CallExtractFloats
    \/ CallFloatsToBytes
    \/ CallFloatsToDataUri

SpecCall == InitCall /\ [][NextCall]_vars

\* ---------------------------------------------------------- properties
\* main() has called extract_floats and it returned.
Extracted == "extract_floats" \in calls /\ exc = "none" /\ pc \in {"check", "print", "exit"}

HasDigit(t) == \E i \in 1..Len(t) : t[i] \in Digits

\* C1: when extract_floats returns an empty sequence, main() never calls
\* floats_to_bytes or floats_to_data_uri, writes nothing to standard output,
\* and ends with exactly one diagnostic line on standard error and status 1.
C1_EmptyExtractionExits ==
    (Extracted /\ values = <<>>) =>
        /\ calls \cap {"floats_to_bytes", "floats_to_data_uri"} = {}
        /\ packed = 0
        /\ stdout = <<>>
        /\ pc \in {"check", "exit"}
        /\ pc = "check" => (stderr = <<>> /\ ENABLED NoNumbers /\ ~ENABLED DataUriReturns
                            /\ ~ENABLED DataUriRaises)
        /\ pc = "exit" => (stderr = <<NoNumbersMessage>> /\ exitCode = 1)

\* No arguments and nothing on standard input: the diagnostic exit was taken.
C1_Witness ==
    /\ pc = "exit" /\ Extracted /\ values = <<>>
    /\ numbers = <<>> /\ stdinRead /\ stdin = <<>>
    /\ exitCode = 1

\* C2: whenever the extracted sequence is not empty, main() ends with status 0
\* and exactly one line on standard output, the data URI of the values, for
\* either dtype and either endian; status 1 only follows an empty extraction.
C2_NonEmptySucceeds ==
    (pc = "exit" /\ "extract_floats" \in calls /\ values # <<>>) =>
        /\ exitCode = 0
        /\ Len(stdout) = 1
        /\ stdout[1] = uri
        /\ Len(uri) >= Len(UriPrefix)

\* Offset of argument k in the joined text.
RECURSIVE ArgOffset(_, _)
ArgOffset(ns, k) == IF k = 1 THEN 0 ELSE ArgOffset(ns, k - 1) + Len(ns[k - 1]) + 1

\* t is the arguments in order with exactly one space between neighbours.
IsSpaceJoined(t, ns) ==
    /\ ns # <<>>
    /\ Len(t) = ArgOffset(ns, Len(ns)) + Len(ns[Len(ns)])
    /\ \A k \in 1..Len(ns) :
        /\ SubSeq(t, ArgOffset(ns, k) + 1, ArgOffset(ns, k) + Len(ns[k])) = ns[k]
        /\ k < Len(ns) => t[ArgOffset(ns, k) + Len(ns[k]) + 1] = " "

\* C3: the text is the whole of standard input exactly when numbers is empty
\* or is the single argument "-"; otherwise it is the arguments joined with
\* single spaces and standard input is not read.
C3_TextSource ==
    (pc # "gather" /\ pc # "call" /\ pc # "returned") =>
        /\ stdinRead <=> (numbers = <<>> \/ numbers = << <<"-">> >>)
        /\ stdinRead => text = stdin
        /\ ~stdinRead => (stdin = <<>> /\ IsSpaceJoined(text, numbers))

\* Two arguments, the first of them "-": joined, standard input left alone.
C3_Witness ==
    /\ pc = "extract"
    /\ Len(numbers) = 2 /\ numbers[1] = <<"-">> /\ numbers[2] = <<"9">>
    /\ ~stdinRead
    /\ text = <<"-", " ", "9">>

\* C4: with a valid dtype and endian, the buffer floats_to_bytes returns has
\* length len(V) * 4 for f32 and len(V) * 8 for f64.
C4_BufferLength ==
    (pc = "returned" /\ calls = {"floats_to_bytes"} /\ exc = "none") =>
        /\ dtype \in DTypes /\ endian \in Endians
        /\ dtype = "f32" => Len(raw) = Len(values) * 4
        /\ dtype = "f64" => Len(raw) = Len(values) * 8

C4_Witness ==
    /\ pc = "returned" /\ calls = {"floats_to_bytes"} /\ exc = "none"
    /\ dtype = "f32" /\ endian = "big"
    /\ Len(values) = 2 /\ Len(raw) = 8

\* x is finite and its magnitude is above the largest finite 32-bit float,
\* (2 - 2^-23) * 2^127.
IsFinite(x) == \E i \in 2..12 : x[i] = 0
ExceedsFloatMax(x) ==
    /\ IsFinite(x)
    /\ LET ef == BitsToNat(SubSeq(x, 2, 12))
           fmaxExp == 127 + 1023
       IN  \/ ef > fmaxExp
           \/ /\ ef = fmaxExp
              /\ \A i \in 13..35 : x[i] = 1
              /\ \E i \in 36..64 : x[i] = 1

\* C5: an invalid dtype or endian makes floats_to_bytes fail with the
\* validation error before anything is serialised, whatever the values are;
\* no partial buffer is produced and floats_to_data_uri passes the error on.
C5_ValidationFirst ==
    (pc = "returned" /\ "floats_to_bytes" \in calls
        /\ (dtype \notin DTypes \/ endian \notin Endians)) =>
        /\ exc = "ValueError"
        /\ packed = 0
        /\ raw = <<>>
        /\ uri = <<>>

\* floats_to_data_uri with a valid dtype, an invalid endian, and a value that
\* the 32-bit format cannot hold.
C5_Witness ==
    /\ pc = "returned" /\ "floats_to_data_uri" \in calls
    /\ dtype = "f32" /\ endian = "native"
    /\ \E i \in 1..Len(values) : ExceedsFloatMax(values[i])
    /\ exc = "ValueError"

\* C6: packing as f32 a finite value whose magnitude is above the largest
\* finite 32-bit float succeeds, and the bytes of that element are those of
\* the infinity of the same sign.
C6_OverflowGivesInfinity ==
    (pc = "returned" /\ "floats_to_bytes" \in calls
        /\ dtype = "f32" /\ endian \in Endians
        /\ \A i \in 1..Len(values) : IsFinite(values[i])) =>
        /\ exc = "none"
        /\ Len(raw) = 4 * Len(values)
        /\ \A i \in 1..Len(values) :
            ExceedsFloatMax(values[i]) =>
                LET inf == <<127 + 128 * values[i][1], 128, 0, 0>>
                    got == SubSeq(raw, 4 * i - 3, 4 * i)
                IN  got = IF endian = "big" THEN inf ELSE Reverse(inf)

\* C7: bytes [k*w, (k+1)*w) of the buffer are the serialisation, alone, of the
\* value of the k-th match in the text, in order of appearance; the buffer has
\* no header, no padding and nothing after the last element.
C7_ElementBytes ==
    (pc \in {"print", "exit"} /\ "floats_to_bytes" \in calls /\ exc = "none") =>
        \A ms \in {FindIter(text)} :
            \A w \in {IF dtype = "f32" THEN 4 ELSE 8} :
                /\ Len(raw) = w * Len(ms)
                /\ \A k \in 1..Len(ms) :
                    SubSeq(raw, (k - 1) * w + 1, k * w)
                        = FloatsToBytes(<<PyFloat(Group(text, ms[k])).val>>,
                                        dtype, endian).value

\* Two different values written big-endian.
C7_Witness ==
    /\ pc = "exit" /\ exitCode = 0
    /\ endian = "big"
    /\ Len(values) = 2 /\ values[1] # values[2]

\* The base64 alphabet of RFC 4648, by value.
Rfc4648 ==
    <<"A", "B", "C", "D", "E", "F", "G", "H", "I", "J", "K", "L", "M">> \o
    <<"N", "O", "P", "Q", "R", "S", "T", "U", "V", "W", "X", "Y", "Z">> \o
    <<"a", "b", "c", "d", "e", "f", "g", "h", "i", "j", "k", "l", "m">> \o
    <<"n", "o", "p", "q", "r", "s", "t", "u", "v", "w", "x", "y", "z">> \o
    <<"0", "1", "2", "3", "4", "5", "6", "7", "8", "9", "+", "/">>

Rfc4648Value(c) == IF c = "=" THEN 0 ELSE (CHOOSE v \in 1..64 : Rfc4648[v] = c) - 1

PadCount(p) ==
    IF Len(p) >= 2 /\ p[Len(p)] = "=" /\ p[Len(p) - 1] = "=" THEN 2
    ELSE IF Len(p) >= 1 /\ p[Len(p)] = "=" THEN 1
    ELSE 0

\* Groups of four characters of the alphabet, "=" only as the last one or two.
IsPaddedBase64(p) ==
    /\ Len(p) % 4 = 0
    /\ \A i \in 1..(Len(p) - PadCount(p)) : \E v \in 1..64 : Rfc4648[v] = p[i]

B64Decode(p) ==
    [j \in 1..((Len(p) \div 4) * 3 - PadCount(p)) |->
        LET g == (j - 1) \div 3
            k == (j - 1) % 3
            v == Rfc4648Value(p[4 * g + 1]) * 262144 + Rfc4648Value(p[4 * g + 2]) * 4096
                 + Rfc4648Value(p[4 * g + 3]) * 64 + Rfc4648Value(p[4 * g + 4])
        IN  (v \div 256^(2 - k)) % 256]

\* C8: the URI is the literal prefix followed by the standard base64 of the
\* buffer of floats_to_bytes, "=" padded, with no line breaks; decoding the
\* payload gives the buffer back.
C8_DataUri ==
    (pc = "returned" /\ "floats_to_data_uri" \in calls /\ exc = "none") =>
        /\ raw = FloatsToBytes(values, dtype, endian).value
        /\ Len(uri) >= Len(UriPrefix)
        /\ SubSeq(uri, 1, Len(UriPrefix)) = UriPrefix
        /\ \A payload \in {Drop(uri, Len(UriPrefix))} :
            /\ IsPaddedBase64(payload)
            /\ Len(payload) = 4 * ((Len(raw) + 2) \div 3)
            /\ B64Decode(payload) = raw

\* Eight bytes: one "=" of padding.
C8_Witness ==
    /\ pc = "returned" /\ "floats_to_data_uri" \in calls /\ exc = "none"
    /\ Len(raw) = 8
    /\ uri[Len(uri)] = "=" /\ uri[Len(uri) - 1] # "="

\* The float-literal grammar, stated on a whole string.
AllDigits(s, a, b) == \A i \in a..b : s[i] \in Digits

IsMantissa(s, a, b) ==
    \/ a <= b /\ AllDigits(s, a, b)
    \/ \E d \in a..b : /\ s[d] = "."
                       /\ AllDigits(s, a, d - 1)
                       /\ AllDigits(s, d + 1, b)
                       /\ (d > a \/ d < b)

IsExponent(s, a, b) ==
    /\ a < b
    /\ s[a] \in ExpMarks
    /\ LET f == IF s[a + 1] \in Signs THEN a + 2 ELSE a + 1
       IN  f <= b /\ AllDigits(s, f, b)

InGrammar(s) ==
    /\ Len(s) > 0
    /\ LET a == IF s[1] \in Signs THEN 2 ELSE 1
       IN  \E m \in a..Len(s) :
               /\ IsMantissa(s, a, m)
               /\ (m = Len(s) \/ IsExponent(s, m + 1, Len(s)))

Covered(ms, p) == \E k \in 1..Len(ms) : ms[k].from <= p /\ p <= ms[k].to

\* C9: extract_floats never raises; its matches are taken left to right, do
\* not overlap, are each the longest grammar string at their start, and leave
\* no grammar string unmatched in between; a mantissa followed by an exponent
\* marker without digits is matched without the marker, which stays outside
\* every match.
C9_Matches ==
    (pc = "returned" /\ calls = {"extract_floats"}) =>
        \A ms \in {FindIter(text)} :
            /\ exc = "none"
            /\ Len(values) = Len(ms)
            /\ \A k \in 1..Len(ms) :
                /\ 1 <= ms[k].from /\ ms[k].from <= ms[k].to /\ ms[k].to <= Len(text)
                /\ k < Len(ms) => ms[k].to < ms[k + 1].from
                /\ InGrammar(Group(text, ms[k]))
                /\ PyFloat(Group(text, ms[k])).ok
                /\ values[k] = PyFloat(Group(text, ms[k])).val
                /\ \A j \in (ms[k].to + 1)..Len(text) :
                    ~InGrammar(SubSeq(text, ms[k].from, j))
                /\ IsChar(text, ms[k].to + 1, ExpMarks) =>
                    /\ ~Covered(ms, ms[k].to + 1)
                    /\ k < Len(ms) => ms[k + 1].from > ms[k].to + 1
            /\ \A p \in 1..Len(text) :
                ~Covered(ms, p) => \A j \in p..Len(text) : ~InGrammar(SubSeq(text, p, j))

\* A mantissa, a marker, a sign and no digit: one value, the mantissa's.
C9_Witness ==
    /\ pc = "returned" /\ calls = {"extract_floats"}
    /\ Len(text) >= 3
    /\ text[1] \in Digits /\ text[2] \in ExpMarks /\ text[3] \in Signs
    /\ ~IsChar(text, 4, Digits)
    /\ Len(values) >= 1
    /\ values[1] = PyFloat(<<text[1]>>).val

\* C10: extract_floats returns the empty sequence exactly when the text has
\* no decimal digit; every digit lies inside some match; main() takes the
\* diagnostic exit only for a text without a digit.
C10_EmptyIffNoDigit ==
    (pc \in {"check", "print", "exit"} /\ "extract_floats" \in calls) =>
        \A ms \in {FindIter(text)} :
            /\ Len(values) = Len(ms)
            /\ (values = <<>>) <=> ~HasDigit(text)
            /\ \A i \in 1..Len(text) : text[i] \in Digits => Covered(ms, i)
            /\ pc = "exit" =>
                ((\E i \in 1..Len(stderr) : stderr[i] = NoNumbersMessage)
                    <=> ~HasDigit(text))

\* A text that has a digit but does not start with one, run to the end.
C10_Witness ==
    /\ pc = "exit" /\ "extract_floats" \in calls
    /\ HasDigit(text) /\ text[1] \notin Digits
    /\ values # <<>>
    /\ stdout # <<>>

====
